---- MODULE Spec2Model ----
(***************************************************************************)
(* Level filter of libs/log (filter.go): filter nodes, the override table  *)
(* (allowedKeyvalMap), the process-wide derived-logger cache               *)
(* (CacheLoggers), the policy update (UpdateFilter) and the policy string  *)
(* parser (UpdateLogLevel).                                                *)
(*                                                                         *)
(* A Go string is a sequence of atoms: the separators "&", ",", ":" are    *)
(* atoms of their own and every other atom is a chunk of text without      *)
(* separators, so "module" is <<"module">>, "" is << >> and                *)
(* "test1:debug" is <<"test1", ":", "debug">>.  Concatenation, Trim,       *)
(* Split and Contains work on these sequences as the Go functions work on  *)
(* bytes.                                                                  *)
(***************************************************************************)
EXTENDS Integers, Sequences, FiniteSets, TLC

\* ------------------------------------------------------------------ bounds
MaxSteps == 4
MaxFilters == 4
MaxTables == 2
NumThreads == 2
MaxThreadOps == 2

\* ------------------------------------------------------- levels (filter.go)
levelDebug == 1
levelInfo == 2
levelError == 4
keyvalsSplit == "&"

Levels == {levelDebug, levelInfo, levelError}

\* l.allowed&lv != 0, for a one-bit lv
levelAllowed(allowed, lv) == (allowed \div lv) % 2 = 1

\* a|b for the level sets the options build
levelOr(a, b) ==
    (IF levelAllowed(a, levelDebug) \/ levelAllowed(b, levelDebug) THEN levelDebug ELSE 0)
  + (IF levelAllowed(a, levelInfo) \/ levelAllowed(b, levelInfo) THEN levelInfo ELSE 0)
  + (IF levelAllowed(a, levelError) \/ levelAllowed(b, levelError) THEN levelError ELSE 0)

\* ------------------------------------------------------------- Go strings
Nil == 0

\* a value of a dynamic type other than string (kv.(string) fails on it)
NonString == <<"(int)5">>

IsString(v) == v # NonString

Contains(s, a) == \E i \in 1..Len(s) : s[i] = a

RECURSIVE TrimLeft(_, _)
TrimLeft(s, a) ==
    IF s # << >> /\ Head(s) = a THEN TrimLeft(Tail(s), a) ELSE s

RECURSIVE TrimRight(_, _)
TrimRight(s, a) ==
    IF s # << >> /\ s[Len(s)] = a THEN TrimRight(SubSeq(s, 1, Len(s) - 1), a) ELSE s

\* strings.Trim(s, cutset) for a one-character cutset
Trim(s, a) == TrimRight(TrimLeft(s, a), a)

\* strings.Split(s, sep): one more substring than there are separators
RECURSIVE Split(_, _)
Split(s, a) ==
    IF ~Contains(s, a) THEN <<s>>
    ELSE LET i == CHOOSE j \in 1..Len(s) : s[j] = a /\ \A k \in 1..(j - 1) : s[k] # a
         IN <<SubSeq(s, 1, i - 1)>> \o Split(SubSeq(s, i + 1, Len(s)), a)

\* the loop of With that builds keyvalsStr (before the Trim)
RECURSIVE JoinKeyvals(_)
JoinKeyvals(keyvals) ==
    IF keyvals = << >> THEN << >>
    ELSE Head(keyvals) \o <<keyvalsSplit>> \o JoinKeyvals(Tail(keyvals))

keyvalsStr(keyvals) == Trim(JoinKeyvals(keyvals), keyvalsSplit)

\* ---------------------------------------------------------------- options
keyval(key, value) == [key |-> key, value |-> value]

NilOption == [kind |-> "nil", key |-> << >>, value |-> << >>, level |-> 0]

allowed(lv) == [kind |-> "allowed", key |-> << >>, value |-> << >>, level |-> lv]

allowedWith(key, value, lv) == [kind |-> "allowedWith", key |-> key, value |-> value, level |-> lv]

AllowDebug == allowed(levelOr(levelError, levelOr(levelInfo, levelDebug)))
AllowInfo == allowed(levelOr(levelError, levelInfo))
AllowError == allowed(levelError)
AllowNone == allowed(0)

AllowDebugWith(key, value) == allowedWith(key, value, levelOr(levelError, levelOr(levelInfo, levelDebug)))
AllowInfoWith(key, value) == allowedWith(key, value, levelOr(levelError, levelInfo))
AllowErrorWith(key, value) == allowedWith(key, value, levelError)
AllowNoneWith(key, value) == allowedWith(key, value, 0)

\* AllowLevel: the option, or an error for an unknown level name
AllowLevel(lvl) ==
    IF lvl = <<"debug">> THEN [err |-> FALSE, option |-> AllowDebug]
    ELSE IF lvl = <<"info">> THEN [err |-> FALSE, option |-> AllowInfo]
    ELSE IF lvl = <<"error">> THEN [err |-> FALSE, option |-> AllowError]
    ELSE IF lvl = <<"none">> THEN [err |-> FALSE, option |-> AllowNone]
    ELSE [err |-> TRUE, option |-> NilOption]

\* ----------------------------------------------------------------- state
VARIABLES
    tables,        \* heap of allowedKeyvalMap.data: table id -> (keyval -> level)
    filters,       \* heap of filter objects: node id -> its fields
    cacheLoggers,  \* the package variable: created (once), allowedKV, loggersMap
    backendLog,    \* the calls the backend loggers received
    crashed,       \* a panic ended the process
    lastOp,        \* the call that made the last step, with what it returned
    steps,         \* calls made so far
    threads,       \* each goroutine: where it is in its call, and the call's locals
    cacheLock,     \* the RWMutex of CacheLoggers: the writer and the readers holding it
    tableLock      \* the RWMutex of each allowedKeyvalMap

vars == <<tables, filters, cacheLoggers, backendLog, crashed, lastOp, steps,
          threads, cacheLock, tableLock>>

\* what the calls made one at a time leave alone
lockVars == <<threads, cacheLock, tableLock>>

FilterIds == 1..Len(filters)

\* a set that adds an entry beside the entry a pair already has
mapSetAdd(data, key, value, lv) ==
    [kv \in DOMAIN data \cup {keyval(key, value)} \cup
            (IF keyval(key, value) \in DOMAIN data THEN {[key |-> key, value |-> value, dup |-> 1]}
             ELSE {}) |->
        IF kv = keyval(key, value) THEN lv ELSE IF kv \in DOMAIN data THEN data[kv] ELSE lv]

\* allowedKeyvalMap.set on the map data
mapSet(data, key, value, lv) ==
    [kv \in DOMAIN data \cup {keyval(key, value)} |->
        IF kv = keyval(key, value) THEN lv ELSE data[kv]]

\* the iteration orders `range a.data` may take
RECURSIVE RangeOrders(_)
RangeOrders(S) ==
    IF S = {} THEN {<< >>}
    ELSE UNION {{<<x>> \o p : p \in RangeOrders(S \ {x})} : x \in S}

\* allowedKeyvalMap.traverse with the traverseFunc of With for the pair
\* (key, value): the entries are visited in the order ord, from position n
RECURSIVE traverseWith(_, _, _, _, _, _)
traverseWith(data, ord, n, key, value, keyIn) ==
    IF n > Len(ord) THEN [re |-> FALSE, level |-> 0, keyIn |-> keyIn]
    ELSE IF key = ord[n].key
         THEN IF value = ord[n].value
              THEN [re |-> TRUE, level |-> data[ord[n]], keyIn |-> TRUE]
              ELSE traverseWith(data, ord, n + 1, key, value, TRUE)
         ELSE traverseWith(data, ord, n + 1, key, value, keyIn)

\* a scan of the pairs from the first supplied to the last
RECURSIVE withScanForward(_, _, _, _)
withScanForward(data, keyvals, i, keyIn) ==
    IF i < 0 THEN {[re |-> FALSE, level |-> 0, keyIn |-> keyIn]}
    ELSE UNION {
        LET j == Len(keyvals) - 2 - i
            r == traverseWith(data, ord, 1, keyvals[j + 1], keyvals[j + 2], keyIn)
        IN IF r.re THEN {r} ELSE withScanForward(data, keyvals, i - 2, r.keyIn)
        : ord \in RangeOrders(DOMAIN data)}

\* the loop `for i := len(keyvals) - 2; i >= 0; i -= 2` of With (i counts from 0):
\* every result some iteration order of the map gives
RECURSIVE withScan(_, _, _, _)
withScan(data, keyvals, i, keyIn) ==
    IF i < 0 THEN {[re |-> FALSE, level |-> 0, keyIn |-> keyIn]}
    ELSE UNION {
        LET r == traverseWith(data, ord, 1, keyvals[i + 1], keyvals[i + 2], keyIn)
        IN IF r.re THEN {r} ELSE withScan(data, keyvals, i - 2, r.keyIn)
        : ord \in RangeOrders(DOMAIN data)}

\* l.next.With(keyvals...) of the backend logger: the backend logger with the
\* keyvals appended to its context; `with` keeps the arguments of this last call
nextWith(next, keyvals) ==
    [base |-> next.base, keyvals |-> next.keyvals \o keyvals, with |-> keyvals]

\* the Logger a filter wraps is a backend logger (base > 0) or, when NewFilter
\* was given a filter, the filter with the id -base
filterLogger(l) == [base |-> 0 - l, keyvals |-> << >>, with |-> << >>]

IsFilter(next) == next.base < 0

wrapped(next) == 0 - next.base

\* CacheLoggers.get on the map
cacheGet(loggersMap, key) == IF key \in DOMAIN loggersMap THEN loggersMap[key] ELSE Nil

\* CacheLoggers.set on the map
cacheSet(loggersMap, key, logger) ==
    [k \in DOMAIN loggersMap \cup {key} |-> IF k = key THEN logger ELSE loggersMap[k]]

\* the filter a With call on the filter f constructs, with effective level lv
childFilter(f, keyvals, lv) ==
    [next |-> nextWith(f.next, keyvals), allowed |-> lv,
     allowedKV |-> f.allowedKV, initiallyAllowed |-> f.initiallyAllowed]

\* With falling back to the parent's current level for a recognized key
withLevelCurrent(f, r) ==
    IF r.re THEN r.level ELSE f.allowed

\* which of its three filters With constructs after the scan result r, and
\* whether it is registered in the cache
withLevel(f, r) ==
    IF r.re THEN r.level
    ELSE IF r.keyIn THEN f.initiallyAllowed
    ELSE f.allowed

withCaches(r) == r.re \/ r.keyIn

\* filter.With as one call: the heap, the cache map and the returned node
With(l, keyvals) ==
    LET f == filters[l]
        str == keyvalsStr(keyvals)
        new == Len(filters) + 1
        fresh(lv, cached) ==
            [filters |-> Append(filters, childFilter(f, keyvals, lv)),
             loggersMap |-> IF cached THEN cacheSet(cacheLoggers.loggersMap, str, new)
                            ELSE cacheLoggers.loggersMap,
             ret |-> new]
    IN IF \E i \in 1..Len(keyvals) : ~IsString(keyvals[i])
       THEN {fresh(f.allowed, FALSE)}
       ELSE IF cacheGet(cacheLoggers.loggersMap, str) # Nil
       THEN {[filters |-> filters, loggersMap |-> cacheLoggers.loggersMap,
              ret |-> cacheGet(cacheLoggers.loggersMap, str)]}
       ELSE {fresh(withLevel(f, r), withCaches(r)) :
                r \in withScan(tables[f.allowedKV], keyvals, Len(keyvals) - 2, FALSE)}

\* an Option called on the filter f: `allowed` sets its level, Allow*With
\* writes its table (a nil table pointer panics in a.Lock())
applyOption(opt, f, tabs) ==
    IF opt.kind = "allowed"
    THEN [f |-> [f EXCEPT !.allowed = opt.level], tabs |-> tabs, panic |-> FALSE]
    ELSE IF f.allowedKV = Nil
    THEN [f |-> f, tabs |-> tabs, panic |-> TRUE]
    ELSE [f |-> f,
          tabs |-> [tabs EXCEPT ![f.allowedKV] = mapSet(@, opt.key, opt.value, opt.level)],
          panic |-> FALSE]

\* `for _, option := range options { option(l) }`
RECURSIVE applyOptions(_, _, _)
applyOptions(options, f, tabs) ==
    IF options = << >> THEN [f |-> f, tabs |-> tabs, panic |-> FALSE]
    ELSE LET r == applyOption(Head(options), f, tabs)
         IN IF r.panic THEN r ELSE applyOptions(Tail(options), r.f, r.tabs)

\* getLoggers: the cache is made once
getLoggers(cl) == IF cl.created THEN cl ELSE [created |-> TRUE, allowedKV |-> Nil, loggersMap |-> << >>]

bootstrap == [kv \in {keyval(<<"module">>, << >>)} |-> levelError]

\* NewFilter(next, options...): the heap, the tables, the cache and the root
NewFilter(next, options) ==
    LET t == Len(tables) + 1
        l0 == [next |-> next, allowed |-> 0,
               allowedKV |-> t, initiallyAllowed |-> 0]
        r == applyOptions(options, l0, Append(tables, bootstrap))
    IN [filters |-> Append(filters, [r.f EXCEPT !.initiallyAllowed = r.f.allowed]),
        tables |-> r.tabs,
        cacheLoggers |-> [getLoggers(cacheLoggers) EXCEPT !.allowedKV = t],
        ret |-> Len(filters) + 1]

\* allowedKeyvalMap.traverse with the traverseFunc of UpdateWith
RECURSIVE traverseUpdateWith(_, _, _, _, _, _)
traverseUpdateWith(data, ord, n, key, value, keyIn) ==
    IF n > Len(ord) THEN [re |-> FALSE, level |-> 0, keyIn |-> keyIn]
    ELSE IF key # ord[n].key
         THEN traverseUpdateWith(data, ord, n + 1, key, value, keyIn)
         ELSE IF value # ord[n].value
              THEN traverseUpdateWith(data, ord, n + 1, key, value, TRUE)
              ELSE [re |-> TRUE, level |-> data[ord[n]], keyIn |-> TRUE]

\* the loop `for i := len(keyvals) - 2; i >= 0; i -= 2` of UpdateWith
RECURSIVE updateWithScan(_, _, _, _)
updateWithScan(data, keyvals, i, keyIn) ==
    IF i < 0 THEN {[re |-> FALSE, level |-> 0, keyIn |-> keyIn]}
    ELSE UNION {
        LET r == traverseUpdateWith(data, ord, 1, keyvals[i + 1], keyvals[i + 2], keyIn)
        IN IF r.re THEN {r} ELSE updateWithScan(data, keyvals, i - 2, r.keyIn)
        : ord \in RangeOrders(DOMAIN data)}

\* what UpdateWith leaves in l.allowed after the scan result r
updateWithLevel(f, r) ==
    IF r.re THEN r.level
    ELSE IF r.keyIn THEN f.initiallyAllowed
    ELSE f.allowed

\* filter.UpdateWith(keyvals...): the filters it may leave
UpdateWith(f, data, keyvals) ==
    {[f EXCEPT !.allowed = updateWithLevel(f, r)] :
        r \in updateWithScan(data, keyvals, Len(keyvals) - 2, FALSE)}

\* the body of update's loop for the cache entry k -> l
updateLogger(defaultOption, k, l, fs, tabs) ==
    LET d == IF defaultOption # NilOption
             THEN applyOption(defaultOption, fs[l], tabs)
             ELSE [f |-> fs[l], tabs |-> tabs, panic |-> FALSE]
        f1 == [d.f EXCEPT !.initiallyAllowed = d.f.allowed]
    IN {[filters |-> [fs EXCEPT ![l] = f2], tables |-> d.tabs] :
            f2 \in UpdateWith(f1, d.tabs[f1.allowedKV], Split(k, keyvalsSplit))}

\* `for k, v := range cl.loggersMap`, over the keys still to visit, in every order
RECURSIVE updateLoop(_, _, _, _, _)
updateLoop(defaultOption, loggersMap, keys, fs, tabs) ==
    IF keys = {} THEN {[filters |-> fs, tables |-> tabs]}
    ELSE UNION {UNION {updateLoop(defaultOption, loggersMap, keys \ {k}, s.filters, s.tables) :
                          s \in updateLogger(defaultOption, k, loggersMap[k], fs, tabs)} :
                   k \in keys}

\* CacheLoggers.update: the options go to the cache's table, then every cached
\* logger is re-derived
update(cl, defaultOption, options) ==
    LET o == applyOptions(options, [allowedKV |-> cl.allowedKV, allowed |-> 0], tables)
    IN IF o.panic THEN {[filters |-> filters, tables |-> tables, panic |-> TRUE]}
       ELSE {[filters |-> s.filters, tables |-> s.tables, panic |-> FALSE] :
                s \in updateLoop(defaultOption, cl.loggersMap, DOMAIN cl.loggersMap, filters, o.tabs)}

\* one item of the list in UpdateLogLevel: an error, a default option or an option
parseItem(item) ==
    LET moduleAndLevel == Split(item, ":")
        module == moduleAndLevel[1]
        level == moduleAndLevel[2]
    IN IF Len(moduleAndLevel) # 2 THEN [err |-> TRUE, isDefault |-> FALSE, option |-> NilOption]
       ELSE IF module = <<"*">>
       THEN [err |-> AllowLevel(level).err, isDefault |-> TRUE, option |-> AllowLevel(level).option]
       ELSE IF level = <<"debug">> THEN [err |-> FALSE, isDefault |-> FALSE, option |-> AllowDebugWith(<<"module">>, module)]
       ELSE IF level = <<"info">> THEN [err |-> FALSE, isDefault |-> FALSE, option |-> AllowInfoWith(<<"module">>, module)]
       ELSE IF level = <<"error">> THEN [err |-> FALSE, isDefault |-> FALSE, option |-> AllowErrorWith(<<"module">>, module)]
       ELSE IF level = <<"none">> THEN [err |-> FALSE, isDefault |-> FALSE, option |-> AllowNoneWith(<<"module">>, module)]
       ELSE [err |-> TRUE, isDefault |-> FALSE, option |-> NilOption]

\* the loop over the list in UpdateLogLevel: it returns at the first error
RECURSIVE parseList(_, _, _)
parseList(list, defaultOption, options) ==
    IF list = << >> THEN [err |-> FALSE, defaultOption |-> defaultOption, options |-> options]
    ELSE LET r == parseItem(Head(list))
         IN IF r.err THEN [err |-> TRUE, defaultOption |-> defaultOption, options |-> options]
            ELSE IF r.isDefault THEN parseList(Tail(list), r.option, options)
            ELSE parseList(Tail(list), defaultOption, Append(options, r.option))

\* UpdateLogLevel up to its call of UpdateFilter
parseLogLevel(lvl) ==
    IF lvl = << >> THEN [err |-> TRUE, defaultOption |-> NilOption, options |-> << >>]
    ELSE LET l == IF ~Contains(lvl, ":") THEN <<"*", ":">> \o lvl ELSE lvl
         IN parseList(Split(l, ","), NilOption, << >>)

\* UpdateFilter(defaultOption, options...): getLoggers, then update
UpdateFilter(defaultOption, options) ==
    {[cacheLoggers |-> getLoggers(cacheLoggers), filters |-> r.filters,
      tables |-> r.tables, panic |-> r.panic] :
        r \in update(getLoggers(cacheLoggers), defaultOption, options)}

\* UpdateLogLevel applying the options it parsed before the malformed token
UpdateLogLevelPartial(lvl) ==
    LET p == parseLogLevel(lvl)
    IN {[cacheLoggers |-> r.cacheLoggers, filters |-> r.filters, tables |-> r.tables,
         panic |-> r.panic, err |-> p.err] :
            r \in UpdateFilter(p.defaultOption, p.options)}

\* UpdateLogLevel(lvl): an error and nothing else, or the UpdateFilter call
UpdateLogLevel(lvl) ==
    LET p == parseLogLevel(lvl)
    IN IF p.err
       THEN {[cacheLoggers |-> cacheLoggers, filters |-> filters, tables |-> tables,
              panic |-> FALSE, err |-> TRUE]}
       ELSE {[cacheLoggers |-> r.cacheLoggers, filters |-> r.filters, tables |-> r.tables,
              panic |-> r.panic, err |-> FALSE] :
                r \in UpdateFilter(p.defaultOption, p.options)}

\* filter.Info, filter.Debug, filter.Error: what the backend has received after the call
\* filter.Info testing the Error bit
InfoTestsErrorBit(l) ==
    IF ~levelAllowed(filters[l].allowed, levelError) THEN backendLog
    ELSE Append(backendLog, [level |-> levelInfo, next |-> filters[l].next])

RECURSIVE Info(_)
Info(l) ==
    IF ~levelAllowed(filters[l].allowed, levelInfo) THEN backendLog
    ELSE IF IsFilter(filters[l].next) THEN Info(wrapped(filters[l].next))
    ELSE Append(backendLog, [level |-> levelInfo, next |-> filters[l].next])

RECURSIVE Debug(_)
Debug(l) ==
    IF ~levelAllowed(filters[l].allowed, levelDebug) THEN backendLog
    ELSE IF IsFilter(filters[l].next) THEN Debug(wrapped(filters[l].next))
    ELSE Append(backendLog, [level |-> levelDebug, next |-> filters[l].next])

RECURSIVE Error(_)
Error(l) ==
    IF ~levelAllowed(filters[l].allowed, levelError) THEN backendLog
    ELSE IF IsFilter(filters[l].next) THEN Error(wrapped(filters[l].next))
    ELSE Append(backendLog, [level |-> levelError, next |-> filters[l].next])

\* ---------------------------------------------------------------- inputs
MODULE_ == <<"module">>
USER == <<"user">>
TEST1 == <<"test1">>
TEST3 == <<"test3">>
SAM == <<"Sam">>

TEST2 == <<"test2">>

\* the options of NewFilter in TestFilter_UpdateWith and TestConcurrent
TestOptions == <<AllowError, AllowInfoWith(MODULE_, TEST1), AllowInfoWith(MODULE_, TEST2)>>

NewFilterOptions ==
    { <<AllowError>>,
      <<AllowError, AllowInfoWith(MODULE_, TEST1)>>,
      <<AllowInfo, AllowNoneWith(USER, SAM)>>,
      <<AllowError, AllowInfoWith(MODULE_, TEST1), AllowNoneWith(USER, SAM)>>,
      TestOptions }

WithKeyvals ==
    { <<MODULE_, TEST1>>,
      <<MODULE_, TEST3>>,
      <<USER, SAM>>,
      <<MODULE_, TEST1, USER, SAM>>,
      <<USER, SAM, MODULE_, TEST1>>,
      <<MODULE_, << >>>>,
      <<MODULE_, NonString>> }

DefaultOptions == {NilOption, AllowInfo, AllowDebug}

UpdateOptions ==
    { << >>,
      <<AllowDebugWith(MODULE_, TEST1)>>,
      <<AllowDebugWith(MODULE_, TEST3)>> }

LogLevels ==
    { << >>,
      <<"info">>,
      <<"test3", ":", "debug">>,
      <<"test1", ":", "info", ",", "*", ":", "error">>,
      <<"test1", ":", "debug", ",", "*", ".", "debug">>,
      <<"test3", ":", "debug", ",", "test1", ":", "erro">>,
      <<"test1", ":", "debug", ":", "x">> }

\* --------------------------------------------------------------- actions
Threads == 1..NumThreads

\* a sync.RWMutex nobody holds
FreeLock == [writer |-> Nil, readers |-> {}]

\* a goroutine between two calls: it keeps the last node a With call returned;
\* op and err are the call it made last and whether that call returned an error;
\* stack holds the With calls that wait for l.next.With of a wrapped filter,
\* need the filters the call may still construct
Idle(ret, ops) ==
    [pc |-> "idle", l |-> 0, keyvals |-> << >>, str |-> << >>, i |-> 0,
     keyIn |-> FALSE, f |-> 0, level |-> 0, defaultOption |-> NilOption,
     options |-> << >>, keys |-> {}, k |-> << >>, ret |-> ret, ops |-> ops,
     op |-> "none", err |-> FALSE, stack |-> << >>, inner |-> 0, need |-> 0]

NoOp ==
    [op |-> "none", l |-> 0, keyvals |-> << >>, defaultOption |-> NilOption,
     options |-> << >>, lvl |-> << >>, ret |-> 0, err |-> FALSE]

Init ==
    /\ tables = << >>
    /\ filters = << >>
    /\ cacheLoggers = [created |-> FALSE, allowedKV |-> Nil, loggersMap |-> << >>]
    /\ backendLog = << >>
    /\ crashed = FALSE
    /\ lastOp = NoOp
    /\ steps = 0
    /\ threads = [t \in Threads |-> Idle(Nil, 0)]
    /\ cacheLock = FreeLock
    /\ tableLock = [t \in 1..MaxTables |-> FreeLock]

CanCall == ~crashed /\ steps < MaxSteps

CallNewFilter ==
    \E options \in NewFilterOptions :
        /\ CanCall
        /\ Len(tables) < MaxTables
        /\ Len(filters) < MaxFilters
        /\ LET r == NewFilter([base |-> Len(tables) + 1, keyvals |-> << >>, with |-> << >>], options)
           IN /\ filters' = r.filters
              /\ tables' = r.tables
              /\ cacheLoggers' = r.cacheLoggers
              /\ lastOp' = [NoOp EXCEPT !.op = "NewFilter", !.options = options, !.ret = r.ret]
        /\ steps' = steps + 1
        /\ UNCHANGED <<backendLog, crashed, lockVars>>

CallWith ==
    \E l \in FilterIds, keyvals \in WithKeyvals :
        /\ CanCall
        /\ \E r \in With(l, keyvals) :
              /\ Len(r.filters) <= MaxFilters
              /\ filters' = r.filters
              /\ cacheLoggers' = [cacheLoggers EXCEPT !.loggersMap = r.loggersMap]
              /\ lastOp' = [NoOp EXCEPT !.op = "With", !.l = l, !.keyvals = keyvals, !.ret = r.ret]
        /\ steps' = steps + 1
        /\ UNCHANGED <<tables, backendLog, crashed, lockVars>>

CallInfo ==
    \E l \in FilterIds :
        /\ CanCall
        /\ backendLog' = Info(l)
        /\ lastOp' = [NoOp EXCEPT !.op = "Info", !.l = l]
        /\ steps' = steps + 1
        /\ UNCHANGED <<tables, filters, cacheLoggers, crashed, lockVars>>

CallDebug ==
    \E l \in FilterIds :
        /\ CanCall
        /\ backendLog' = Debug(l)
        /\ lastOp' = [NoOp EXCEPT !.op = "Debug", !.l = l]
        /\ steps' = steps + 1
        /\ UNCHANGED <<tables, filters, cacheLoggers, crashed, lockVars>>

CallError ==
    \E l \in FilterIds :
        /\ CanCall
        /\ backendLog' = Error(l)
        /\ lastOp' = [NoOp EXCEPT !.op = "Error", !.l = l]
        /\ steps' = steps + 1
        /\ UNCHANGED <<tables, filters, cacheLoggers, crashed, lockVars>>

CallUpdateFilter ==
    \E defaultOption \in DefaultOptions, options \in UpdateOptions :
        /\ CanCall
        /\ \E r \in UpdateFilter(defaultOption, options) :
              /\ cacheLoggers' = r.cacheLoggers
              /\ filters' = r.filters
              /\ tables' = r.tables
              /\ crashed' = r.panic
        /\ lastOp' = [NoOp EXCEPT !.op = "UpdateFilter", !.defaultOption = defaultOption,
                                  !.options = options]
        /\ steps' = steps + 1
        /\ UNCHANGED <<backendLog, lockVars>>

CallUpdateLogLevel ==
    \E lvl \in LogLevels :
        /\ CanCall
        /\ \E r \in UpdateLogLevel(lvl) :
              /\ cacheLoggers' = r.cacheLoggers
              /\ filters' = r.filters
              /\ tables' = r.tables
              /\ crashed' = r.panic
              /\ lastOp' = [NoOp EXCEPT !.op = "UpdateLogLevel", !.lvl = lvl, !.err = r.err]
        /\ steps' = steps + 1
        /\ UNCHANGED <<backendLog, lockVars>>

Next ==
    \/ CallNewFilter
    \/ CallWith
    \/ CallInfo
    \/ CallDebug
    \/ CallError
    \/ CallUpdateFilter
    \/ CallUpdateLogLevel

Spec == Init /\ [][Next]_vars

\* ------------------------------------------- goroutines (TestConcurrent)
\* an RLock that does not wait for the writer
canRLockAlways(m) == TRUE

\* sync.RWMutex: RLock waits for the writer, Lock for the writer and the readers
canRLock(m) == m.writer = Nil

canLock(m) == m.writer = Nil /\ m.readers = {}

rLock(m, t) == [m EXCEPT !.readers = @ \cup {t}]

rUnlock(m, t) == [m EXCEPT !.readers = @ \ {t}]

lock(m, t) == [m EXCEPT !.writer = t]

unlock(m) == [m EXCEPT !.writer = Nil]

\* the filter TestConcurrent starts from, over a cache with an empty map
TestRoot ==
    applyOptions(TestOptions,
                 [next |-> [base |-> 1, keyvals |-> << >>, with |-> << >>], allowed |-> 0,
                  allowedKV |-> 1, initiallyAllowed |-> 0],
                 <<bootstrap>>)

ConcKeyvals == {<<MODULE_, TEST1>>, <<MODULE_, TEST3>>}

ConcLogLevels ==
    { <<"test3", ":", "info", ",", "*", ":", "error">>,
      <<"test3", ":", "debug", ",", "*", ".", "debug">>,
      <<"*", ":", "info">> }

ConcInit ==
    /\ tables = TestRoot.tabs
    /\ filters = <<[TestRoot.f EXCEPT !.initiallyAllowed = TestRoot.f.allowed]>>
    /\ cacheLoggers = [created |-> TRUE, allowedKV |-> 1, loggersMap |-> << >>]
    /\ backendLog = << >>
    /\ crashed = FALSE
    /\ lastOp = NoOp
    /\ steps = 0
    /\ threads = [t \in Threads |-> Idle(Nil, 0)]
    /\ cacheLock = FreeLock
    /\ tableLock = [t \in 1..MaxTables |-> FreeLock]

CanStart(t) == ~crashed /\ threads[t].pc = "idle" /\ threads[t].ops < MaxThreadOps

Returned(t, ret) == [Idle(ret, threads[t].ops + 1) EXCEPT !.op = threads[t].op]

\* a With call returns x: to the goroutine, or to the With call that called it
\* as l.next.With
WithReturn(t, th, x) ==
    IF th.stack = << >> THEN Returned(t, x)
    ELSE [th EXCEPT !.pc = "resume", !.inner = x, !.f = 0]

\* the filters a With call on l constructs at most: one, and one more in
\* l.next.With when l wraps a filter
WithCost(l) == IF IsFilter(filters[l].next) THEN 2 ELSE 1

\* the filters the With calls in progress may still construct
RECURSIVE Reserved(_)
Reserved(S) ==
    IF S = {} THEN 0
    ELSE LET u == CHOOSE v \in S : TRUE IN threads[u].need + Reserved(S \ {u})

\* the filters NewFilter returned
Roots == {n \in FilterIds : filters[n].next.with = << >>}

\* With on a filter that wraps a filter calls the With of that filter (line
\* 189, 214, 237 or 247) before it constructs its own
callNextWith(th, at, lv) ==
    [th EXCEPT !.stack = <<[l |-> th.l, at |-> at, level |-> lv]>> \o th.stack,
               !.l = wrapped(filters[th.l].next), !.keyIn = FALSE,
               !.pc = IF \A j \in 1..Len(th.keyvals) : IsString(th.keyvals[j])
                      THEN "getRLock" ELSE "construct"]

\* a goroutine calls With on the root or on the node its last With returned
StartWith(t) ==
    /\ CanStart(t)
    /\ \E l \in Roots \cup ({threads[t].ret} \ {Nil}), keyvals \in ConcKeyvals :
          /\ Len(filters) + Reserved(Threads) + WithCost(l) <= MaxFilters
          /\ threads' = [threads EXCEPT ![t] =
                 [@ EXCEPT !.pc = IF (\A j \in 1..Len(keyvals) : IsString(keyvals[j]))
                                  THEN "getRLock" ELSE "construct",
                           !.l = l, !.keyvals = keyvals, !.str = keyvalsStr(keyvals),
                           !.keyIn = FALSE, !.f = 0, !.op = "With", !.err = FALSE,
                           !.need = WithCost(l)]]
    /\ UNCHANGED <<tables, filters, cacheLoggers, backendLog, crashed, lastOp, steps,
                   cacheLock, tableLock>>

\* loggers.get: l.RLock()
GetRLock(t) ==
    /\ threads[t].pc = "getRLock"
    /\ canRLock(cacheLock)
    /\ cacheLock' = rLock(cacheLock, t)
    /\ threads' = [threads EXCEPT ![t].pc = "getRead"]
    /\ UNCHANGED <<tables, filters, cacheLoggers, backendLog, crashed, lastOp, steps, tableLock>>

\* loggers.get: the map read and RUnlock; a hit returns, a miss starts the scan
GetRead(t) ==
    /\ threads[t].pc = "getRead"
    /\ cacheLock' = rUnlock(cacheLock, t)
    /\ LET log == cacheGet(cacheLoggers.loggersMap, threads[t].str)
           i == Len(threads[t].keyvals) - 2
       IN threads' = [threads EXCEPT ![t] =
              IF log # Nil THEN WithReturn(t, threads[t], log)
              ELSE [@ EXCEPT !.i = i, !.pc = IF i >= 0 THEN "travRLock" ELSE "construct"]]
    /\ UNCHANGED <<tables, filters, cacheLoggers, backendLog, crashed, lastOp, steps, tableLock>>

\* l.allowedKV.traverse: a.RLock()
TravRLock(t) ==
    /\ threads[t].pc = "travRLock"
    /\ canRLock(tableLock[filters[threads[t].l].allowedKV])
    /\ tableLock' = [tableLock EXCEPT ![filters[threads[t].l].allowedKV] = rLock(@, t)]
    /\ threads' = [threads EXCEPT ![t].pc = "travRead"]
    /\ UNCHANGED <<tables, filters, cacheLoggers, backendLog, crashed, lastOp, steps, cacheLock>>

\* l.allowedKV.traverse: the range over the map with With's traverseFunc, and RUnlock
TravRead(t) ==
    /\ threads[t].pc = "travRead"
    /\ LET th == threads[t]
           f == filters[th.l]
           data == tables[f.allowedKV]
       IN \E r \in {traverseWith(data, ord, 1, th.keyvals[th.i + 1], th.keyvals[th.i + 2],
                                 th.keyIn) : ord \in RangeOrders(DOMAIN data)} :
             IF r.re /\ IsFilter(f.next)
             THEN /\ filters' = filters
                  /\ tableLock' = tableLock
                  /\ threads' = [threads EXCEPT ![t] = callNextWith(th, "match", r.level)]
             ELSE /\ tableLock' = [tableLock EXCEPT ![f.allowedKV] = rUnlock(@, t)]
                  /\ IF r.re
                     THEN /\ filters' = Append(filters, childFilter(f, th.keyvals, withLevel(f, r)))
                          /\ threads' = [threads EXCEPT ![t] =
                                 [@ EXCEPT !.f = Len(filters) + 1, !.pc = "setLock",
                                           !.need = @ - 1]]
                     ELSE /\ filters' = filters
                          /\ threads' = [threads EXCEPT ![t] =
                                 [@ EXCEPT !.keyIn = r.keyIn, !.i = th.i - 2,
                                           !.pc = IF th.i - 2 >= 0 THEN "travRLock"
                                                  ELSE "construct"]]
    /\ UNCHANGED <<tables, cacheLoggers, backendLog, crashed, lastOp, steps, cacheLock>>

\* the filter With constructs when no pair matched exactly (or a keyval is no string)
Construct(t) ==
    /\ threads[t].pc = "construct"
    /\ LET th == threads[t]
           f == filters[th.l]
           r == [re |-> FALSE, level |-> 0, keyIn |-> th.keyIn]
       IN IF IsFilter(f.next)
          THEN /\ filters' = filters
               /\ threads' = [threads EXCEPT ![t] =
                      callNextWith(th, IF withCaches(r) THEN "keyIn" ELSE "plain", 0)]
          ELSE /\ filters' = Append(filters, childFilter(f, th.keyvals, withLevel(f, r)))
               /\ threads' = [threads EXCEPT ![t] =
                      IF withCaches(r)
                      THEN [@ EXCEPT !.f = Len(filters) + 1, !.pc = "setLock", !.need = @ - 1]
                      ELSE WithReturn(t, th, Len(filters) + 1)]
    /\ UNCHANGED <<tables, cacheLoggers, backendLog, crashed, lastOp, steps, cacheLock, tableLock>>

\* l.next.With of the wrapped filter has returned: With constructs its filter
\* around the result; after an exact match this is the end of traverseFunc,
\* and traverse returns through its RUnlock
Resume(t) ==
    /\ threads[t].pc = "resume"
    /\ LET th == threads[t]
           fr == Head(th.stack)
           f == filters[fr.l]
           r == [re |-> fr.at = "match", level |-> fr.level, keyIn |-> fr.at # "plain"]
           new == Len(filters) + 1
           popped == [th EXCEPT !.stack = Tail(@), !.l = fr.l, !.f = new, !.need = @ - 1]
       IN /\ filters' = Append(filters,
                 [childFilter(f, th.keyvals, withLevel(f, r)) EXCEPT
                     !.next = [filterLogger(th.inner) EXCEPT !.keyvals = th.keyvals,
                                                            !.with = th.keyvals]])
          /\ tableLock' = IF fr.at = "match"
                          THEN [tableLock EXCEPT ![f.allowedKV] = rUnlock(@, t)]
                          ELSE tableLock
          /\ threads' = [threads EXCEPT ![t] =
                 IF withCaches(r) THEN [popped EXCEPT !.pc = "setLock"]
                 ELSE WithReturn(t, popped, new)]
    /\ UNCHANGED <<tables, cacheLoggers, backendLog, crashed, lastOp, steps, cacheLock>>

\* loggers.set: l.Lock()
SetLock(t) ==
    /\ threads[t].pc = "setLock"
    /\ canLock(cacheLock)
    /\ cacheLock' = lock(cacheLock, t)
    /\ threads' = [threads EXCEPT ![t].pc = "setWrite"]
    /\ UNCHANGED <<tables, filters, cacheLoggers, backendLog, crashed, lastOp, steps, tableLock>>

\* loggers.set: the map write and Unlock; With returns the filter
SetWrite(t) ==
    /\ threads[t].pc = "setWrite"
    /\ cacheLoggers' = [cacheLoggers EXCEPT
                           !.loggersMap = cacheSet(@, threads[t].str, threads[t].f)]
    /\ cacheLock' = unlock(cacheLock)
    /\ threads' = [threads EXCEPT ![t] = WithReturn(t, threads[t], threads[t].f)]
    /\ UNCHANGED <<tables, filters, backendLog, crashed, lastOp, steps, tableLock>>

\* a goroutine calls Debug, Info or Error on the node its last With returned
StartEmit(t) ==
    /\ CanStart(t)
    /\ threads[t].ret # Nil
    /\ \E lv \in Levels :
          threads' = [threads EXCEPT ![t] =
              [@ EXCEPT !.pc = "emit", !.l = threads[t].ret, !.level = lv,
                        !.op = "Emit", !.err = FALSE]]
    /\ UNCHANGED <<tables, filters, cacheLoggers, backendLog, crashed, lastOp, steps,
                   cacheLock, tableLock>>

\* filter.Debug / Info / Error: the read of l.allowed and the backend call
Emit(t) ==
    /\ threads[t].pc = "emit"
    /\ backendLog' = IF threads[t].level = levelDebug THEN Debug(threads[t].l)
                     ELSE IF threads[t].level = levelInfo THEN Info(threads[t].l)
                     ELSE Error(threads[t].l)
    /\ threads' = [threads EXCEPT ![t] = Returned(t, threads[t].ret)]
    /\ UNCHANGED <<tables, filters, cacheLoggers, crashed, lastOp, steps, cacheLock, tableLock>>

\* a goroutine calls UpdateLogLevel: the parse, which returns the error or
\* goes on to UpdateFilter
StartUpdateLogLevel(t) ==
    /\ CanStart(t)
    /\ \E lvl \in ConcLogLevels :
          LET p == parseLogLevel(lvl)
          IN threads' = [threads EXCEPT ![t] =
                 IF p.err
                 THEN [Returned(t, threads[t].ret) EXCEPT !.op = "UpdateLogLevel", !.err = TRUE]
                 ELSE [@ EXCEPT !.pc = "updLock", !.defaultOption = p.defaultOption,
                                !.options = p.options, !.op = "UpdateLogLevel",
                                !.err = FALSE]]
    /\ UNCHANGED <<tables, filters, cacheLoggers, backendLog, crashed, lastOp, steps,
                   cacheLock, tableLock>>

\* update: getLoggers and cl.Lock()
UpdLock(t) ==
    /\ threads[t].pc = "updLock"
    /\ canLock(cacheLock)
    /\ cacheLock' = lock(cacheLock, t)
    /\ cacheLoggers' = getLoggers(cacheLoggers)
    /\ threads' = [threads EXCEPT ![t] =
           [@ EXCEPT !.keys = DOMAIN cacheLoggers.loggersMap,
                     !.pc = IF threads[t].options # << >> THEN "optLock" ELSE "range"]]
    /\ UNCHANGED <<tables, filters, backendLog, crashed, lastOp, steps, tableLock>>

\* update: option(&filter{allowedKV: cl.allowedKV}) up to a.Lock() of set
OptLock(t) ==
    /\ threads[t].pc = "optLock"
    /\ IF Head(threads[t].options).kind # "allowedWith"
       THEN /\ threads' = [threads EXCEPT ![t] =
                   [@ EXCEPT !.options = Tail(@),
                             !.pc = IF Tail(threads[t].options) # << >> THEN "optLock" ELSE "range"]]
            /\ UNCHANGED <<tableLock, crashed>>
       ELSE IF cacheLoggers.allowedKV = Nil
       THEN /\ crashed' = TRUE
            /\ UNCHANGED <<threads, tableLock>>
       ELSE /\ canLock(tableLock[cacheLoggers.allowedKV])
            /\ tableLock' = [tableLock EXCEPT ![cacheLoggers.allowedKV] = lock(@, t)]
            /\ threads' = [threads EXCEPT ![t].pc = "optWrite"]
            /\ UNCHANGED crashed
    /\ UNCHANGED <<tables, filters, cacheLoggers, backendLog, lastOp, steps, cacheLock>>

\* update: the map write of set and its Unlock
OptWrite(t) ==
    /\ threads[t].pc = "optWrite"
    /\ tables' = applyOption(Head(threads[t].options),
                             [allowedKV |-> cacheLoggers.allowedKV, allowed |-> 0], tables).tabs
    /\ tableLock' = [tableLock EXCEPT ![cacheLoggers.allowedKV] = unlock(@)]
    /\ threads' = [threads EXCEPT ![t] =
           [@ EXCEPT !.options = Tail(@),
                     !.pc = IF Tail(threads[t].options) # << >> THEN "optLock" ELSE "range"]]
    /\ UNCHANGED <<filters, cacheLoggers, backendLog, crashed, lastOp, steps, cacheLock>>

\* update: `for k, v := range cl.loggersMap` takes the next entry
Range(t) ==
    /\ threads[t].pc = "range"
    /\ \E k \in threads[t].keys :
          threads' = [threads EXCEPT ![t] =
              [@ EXCEPT !.k = k, !.keys = @ \ {k}, !.l = cacheLoggers.loggersMap[k],
                        !.pc = IF threads[t].defaultOption # NilOption THEN "defOpt"
                               ELSE "baseline"]]
    /\ UNCHANGED <<tables, filters, cacheLoggers, backendLog, crashed, lastOp, steps,
                   cacheLock, tableLock>>

\* update: defaultOption(l)
DefOpt(t) ==
    /\ threads[t].pc = "defOpt"
    /\ LET r == applyOption(threads[t].defaultOption, filters[threads[t].l], tables)
       IN /\ filters' = [filters EXCEPT ![threads[t].l] = r.f]
          /\ tables' = r.tabs
    /\ threads' = [threads EXCEPT ![t].pc = "baseline"]
    /\ UNCHANGED <<cacheLoggers, backendLog, crashed, lastOp, steps, cacheLock, tableLock>>

\* update: l.initiallyAllowed = l.allowed, the Split of the key, and UpdateWith's loop head
Baseline(t) ==
    /\ threads[t].pc = "baseline"
    /\ filters' = [filters EXCEPT ![threads[t].l].initiallyAllowed = filters[threads[t].l].allowed]
    /\ LET i == Len(Split(threads[t].k, keyvalsSplit)) - 2
       IN threads' = [threads EXCEPT ![t] =
              [@ EXCEPT !.i = i, !.keyIn = FALSE, !.pc = IF i >= 0 THEN "uwRLock" ELSE "range"]]
    /\ UNCHANGED <<tables, cacheLoggers, backendLog, crashed, lastOp, steps, cacheLock, tableLock>>

\* UpdateWith: a.RLock() of traverse
UwRLock(t) ==
    /\ threads[t].pc = "uwRLock"
    /\ canRLock(tableLock[filters[threads[t].l].allowedKV])
    /\ tableLock' = [tableLock EXCEPT ![filters[threads[t].l].allowedKV] = rLock(@, t)]
    /\ threads' = [threads EXCEPT ![t].pc = "uwRead"]
    /\ UNCHANGED <<tables, filters, cacheLoggers, backendLog, crashed, lastOp, steps, cacheLock>>

\* UpdateWith: the range over the map with its traverseFunc, and RUnlock
UwRead(t) ==
    /\ threads[t].pc = "uwRead"
    /\ LET th == threads[t]
           f == filters[th.l]
           data == tables[f.allowedKV]
           ks == Split(th.k, keyvalsSplit)
       IN /\ tableLock' = [tableLock EXCEPT ![f.allowedKV] = rUnlock(@, t)]
          /\ \E r \in {traverseUpdateWith(data, ord, 1, ks[th.i + 1], ks[th.i + 2], th.keyIn) :
                          ord \in RangeOrders(DOMAIN data)} :
                IF r.re
                THEN /\ filters' = [filters EXCEPT ![th.l].allowed = updateWithLevel(f, r)]
                     /\ threads' = [threads EXCEPT ![t].pc = "range"]
                ELSE /\ filters' = filters
                     /\ threads' = [threads EXCEPT ![t] =
                            [@ EXCEPT !.keyIn = r.keyIn, !.i = th.i - 2,
                                      !.pc = IF th.i - 2 >= 0 THEN "uwRLock"
                                             ELSE IF r.keyIn THEN "uwFallback" ELSE "range"]]
    /\ UNCHANGED <<tables, cacheLoggers, backendLog, crashed, lastOp, steps, cacheLock>>

\* UpdateWith: l.allowed = l.initiallyAllowed
UwFallback(t) ==
    /\ threads[t].pc = "uwFallback"
    /\ filters' = [filters EXCEPT ![threads[t].l].allowed =
                      updateWithLevel(filters[threads[t].l],
                                      [re |-> FALSE, level |-> 0, keyIn |-> TRUE])]
    /\ threads' = [threads EXCEPT ![t].pc = "range"]
    /\ UNCHANGED <<tables, cacheLoggers, backendLog, crashed, lastOp, steps, cacheLock, tableLock>>

\* update: the loop is over, the deferred cl.Unlock() runs and UpdateLogLevel returns
UpdUnlock(t) ==
    /\ threads[t].pc = "range"
    /\ threads[t].keys = {}
    /\ cacheLock' = unlock(cacheLock)
    /\ threads' = [threads EXCEPT ![t] = Returned(t, threads[t].ret)]
    /\ UNCHANGED <<tables, filters, cacheLoggers, backendLog, crashed, lastOp, steps, tableLock>>

ConcNext ==
    \E t \in Threads :
        \/ StartWith(t)
        \/ GetRLock(t)
        \/ GetRead(t)
        \/ TravRLock(t)
        \/ TravRead(t)
        \/ Construct(t)
        \/ SetLock(t)
        \/ SetWrite(t)
        \/ StartEmit(t)
        \/ Emit(t)
        \/ StartUpdateLogLevel(t)
        \/ UpdLock(t)
        \/ OptLock(t)
        \/ OptWrite(t)
        \/ Range(t)
        \/ DefOpt(t)
        \/ Baseline(t)
        \/ UwRLock(t)
        \/ UwRead(t)
        \/ UwFallback(t)
        \/ UpdUnlock(t)

ConcSpec == ConcInit /\ [][ConcNext]_vars

\* a filter around a filter: outer := NewFilter(NewFilter(backend, ...), ...)
NestOptions == <<AllowError, AllowInfoWith(MODULE_, TEST1)>>

NestRoot ==
    applyOptions(NestOptions,
                 [next |-> filterLogger(1), allowed |-> 0, allowedKV |-> 2,
                  initiallyAllowed |-> 0],
                 Append(TestRoot.tabs, bootstrap))

NestInit ==
    /\ tables = NestRoot.tabs
    /\ filters = <<[TestRoot.f EXCEPT !.initiallyAllowed = TestRoot.f.allowed],
                   [NestRoot.f EXCEPT !.initiallyAllowed = NestRoot.f.allowed]>>
    /\ cacheLoggers = [created |-> TRUE, allowedKV |-> 2, loggersMap |-> << >>]
    /\ backendLog = << >>
    /\ crashed = FALSE
    /\ lastOp = NoOp
    /\ steps = 0
    /\ threads = [t \in Threads |-> Idle(Nil, 0)]
    /\ cacheLock = FreeLock
    /\ tableLock = [t \in 1..MaxTables |-> FreeLock]

\* the steps of a call a goroutine has started
Step(t) ==
    \/ GetRLock(t)
    \/ GetRead(t)
    \/ TravRLock(t)
    \/ TravRead(t)
    \/ Construct(t)
    \/ Resume(t)
    \/ SetLock(t)
    \/ SetWrite(t)
    \/ Emit(t)
    \/ UpdLock(t)
    \/ OptLock(t)
    \/ OptWrite(t)
    \/ Range(t)
    \/ DefOpt(t)
    \/ Baseline(t)
    \/ UwRLock(t)
    \/ UwRead(t)
    \/ UwFallback(t)
    \/ UpdUnlock(t)

\* the scheduler runs every goroutine that can take a step, and a mutex
\* that is free is handed to a goroutine that waits for it
Fairness == \A t \in Threads : WF_vars(Step(t))

ConcFairSpec == ConcInit /\ [][ConcNext]_vars /\ Fairness

\* with a filter around a filter, With also continues after l.next.With
NestNext ==
    \/ ConcNext
    \/ \E t \in Threads : Resume(t)

NestSpec == NestInit /\ [][NestNext]_vars /\ Fairness

\* the memory a goroutine's next step reads or writes
MapLoc(kind, id) == [kind |-> kind, id |-> id]

NextAccess(t) ==
    LET th == threads[t]
        rd(kind, id) == [loc |-> MapLoc(kind, id), write |-> FALSE]
        wr(kind, id) == [loc |-> MapLoc(kind, id), write |-> TRUE]
    IN IF th.pc = "getRead" THEN {rd("loggersMap", 0)}
       ELSE IF th.pc = "setWrite" THEN {wr("loggersMap", 0)}
       ELSE IF th.pc = "travRead"
       THEN {rd("data", filters[th.l].allowedKV), rd("initiallyAllowed", th.l)}
       ELSE IF th.pc = "construct"
       THEN {rd(IF th.keyIn THEN "initiallyAllowed" ELSE "allowed", th.l)}
       ELSE IF th.pc = "resume"
       THEN {rd(IF Head(th.stack).at = "plain" THEN "allowed" ELSE "initiallyAllowed",
                Head(th.stack).l)}
       ELSE IF th.pc = "emit" THEN {rd("allowed", th.l)}
       ELSE IF th.pc = "optWrite" THEN {wr("data", cacheLoggers.allowedKV)}
       ELSE IF th.pc = "range" THEN {rd("loggersMap", 0)}
       ELSE IF th.pc = "defOpt" THEN {rd("loggersMap", 0), wr("allowed", th.l)}
       ELSE IF th.pc = "baseline"
       THEN {rd("loggersMap", 0), rd("allowed", th.l), wr("initiallyAllowed", th.l)}
       ELSE IF th.pc = "uwRLock" THEN {rd("loggersMap", 0)}
       ELSE IF th.pc = "uwRead"
       THEN {rd("loggersMap", 0), rd("data", filters[th.l].allowedKV), wr("allowed", th.l)}
       ELSE IF th.pc = "uwFallback"
       THEN {rd("loggersMap", 0), rd("initiallyAllowed", th.l), wr("allowed", th.l)}
       ELSE {}

\* ------------------------------------------------- vocabulary of the claims
\* the level set a level byte stands for
SetSum(S) ==
    (IF levelDebug \in S THEN levelDebug ELSE 0) + (IF levelInfo \in S THEN levelInfo ELSE 0)
    + (IF levelError \in S THEN levelError ELSE 0)

LevelSet(a) == CHOOSE S \in SUBSET Levels : SetSum(S) = a

EmitLevel(op) ==
    IF op = "Debug" THEN levelDebug ELSE IF op = "Info" THEN levelInfo ELSE levelError

\* the positions of the keys of the (key, value) pairs a With call supplies
PairKeys(kvs) == {i \in 1..(Len(kvs) - 1) : (Len(kvs) - 1 - i) % 2 = 0}

AllStrings(kvs) == \A i \in 1..Len(kvs) : IsString(kvs[i])

\* the pairs of kvs with an exact entry in the table T, and whether T knows a key of kvs
ExactPairs(T, kvs) == {i \in PairKeys(kvs) : keyval(kvs[i], kvs[i + 1]) \in DOMAIN T}

Recognized(T, kvs) == \E i \in PairKeys(kvs) : \E e \in DOMAIN T : e.key = kvs[i]

LastExact(T, kvs) == CHOOSE i \in ExactPairs(T, kvs) : \A j \in ExactPairs(T, kvs) : j <= i

\* the level the table T and the default D assign to the attribute path kvs
PolicyLevel(T, kvs, D) ==
    IF ExactPairs(T, kvs) # {}
    THEN T[keyval(kvs[LastExact(T, kvs)], kvs[LastExact(T, kvs) + 1])]
    ELSE D

\* the last option of a list for the pair of its i-th option
LastForPair(options, i) ==
    /\ options[i].kind = "allowedWith"
    /\ \A j \in (i + 1)..Len(options) :
          ~(options[j].kind = "allowedWith" /\ options[j].key = options[i].key
            /\ options[j].value = options[i].value)

\* -------------------------------------------------------------------- C1
\* C1: an emission call on a node forwards exactly one call to the node's
\* backend logger, at the level of the call, when the node's effective level
\* set holds that level, and no call otherwise; the nodes, the override
\* tables and the cache are as before the call.
C1_EmitForwardsIffAllowed ==
    [][lastOp'.op \in {"Debug", "Info", "Error"} =>
        LET n == lastOp'.l
            L == EmitLevel(lastOp'.op)
        IN /\ backendLog' = IF L \in LevelSet(filters[n].allowed)
                            THEN Append(backendLog, [level |-> L, next |-> filters[n].next])
                            ELSE backendLog
           /\ filters' = filters
           /\ tables' = tables
           /\ cacheLoggers' = cacheLoggers]_vars

\* a Debug call was dropped by a node whose Error call had been forwarded
C1_Witness ==
    /\ lastOp.op = "Debug"
    /\ steps = 3
    /\ Len(backendLog) = 1
    /\ backendLog[1].level = levelError
    /\ levelDebug \notin LevelSet(filters[lastOp.l].allowed)
    /\ backendLog[1].next = filters[lastOp.l].next

\* -------------------------------------------------------------------- C2
\* C2: when a NewFilter or UpdateFilter call has applied an Allow*With(k, v)
\* option of level set S and the next call is With(k, v) (on the root that
\* NewFilter call returned, or on any node after UpdateFilter), the node that
\* With call returns has the effective level set S.
C2_OptionThenWithGivesLevel ==
    [][(/\ lastOp.op \in {"NewFilter", "UpdateFilter"}
        /\ ~crashed
        /\ lastOp'.op = "With"
        /\ lastOp.op = "NewFilter" => lastOp'.l = lastOp.ret)
       => \A i \in 1..Len(lastOp.options) :
             (/\ LastForPair(lastOp.options, i)
              /\ lastOp'.keyvals = <<lastOp.options[i].key, lastOp.options[i].value>>)
             => filters'[lastOp'.ret].allowed = lastOp.options[i].level]_vars

\* -------------------------------------------------------------------- C3
\* the options the last call applied, when it was a policy update that returned
UpdateApplied ==
    IF crashed THEN << >>
    ELSE IF lastOp.op = "UpdateFilter" THEN lastOp.options
    ELSE IF lastOp.op = "UpdateLogLevel" /\ ~lastOp.err
    THEN parseLogLevel(lastOp.lvl).options
    ELSE << >>

\* C3: after a policy update (UpdateFilter, or UpdateLogLevel with or without
\* a '*' token) has returned, every node obtained from a root by With(k, v)
\* for the (k, v) of one of the update's per-attribute options has that
\* option's level set as its effective level.
C3_UpdateReachesMatchingNodes ==
    \A i \in 1..Len(UpdateApplied) :
        LastForPair(UpdateApplied, i)
        => \A n \in FilterIds :
              filters[n].next.keyvals = <<UpdateApplied[i].key, UpdateApplied[i].value>>
              => filters[n].allowed = UpdateApplied[i].level

\* -------------------------------------------------------------------- C4
\* C4: after UpdateFilter with a default option of level set D has returned,
\* every node in the cache has the baseline D, and its effective level is the
\* level the override table holds for the last pair of its attribute path
\* with an exact entry, or D when a key of the path is recognized and no pair
\* matches exactly.
C4_CachedNodesFollowDefault ==
    (lastOp.op = "UpdateFilter" /\ lastOp.defaultOption # NilOption /\ ~crashed)
    => \A k \in DOMAIN cacheLoggers.loggersMap :
          LET f == filters[cacheLoggers.loggersMap[k]]
              T == tables[cacheLoggers.allowedKV]
              D == lastOp.defaultOption.level
          IN /\ f.initiallyAllowed = D
             /\ ExactPairs(T, f.next.with) # {} => f.allowed = PolicyLevel(T, f.next.with, D)
             /\ (ExactPairs(T, f.next.with) = {} /\ Recognized(T, f.next.with))
                   => f.allowed = D

\* -------------------------------------------------------------------- C5
\* C5: after UpdateFilter with a default option has returned, every handle
\* obtained before it (the roots NewFilter returned and every node With
\* returned) has the effective level the new policy assigns to its attribute
\* path: the override level of its last exactly matching pair, else the new
\* default.
C5_AllHandlesFollowUpdate ==
    (lastOp.op = "UpdateFilter" /\ lastOp.defaultOption # NilOption /\ ~crashed)
    => \A n \in FilterIds :
          AllStrings(filters[n].next.with)
          => filters[n].allowed
               = PolicyLevel(tables[cacheLoggers.allowedKV], filters[n].next.with,
                             lastOp.defaultOption.level)

\* -------------------------------------------------------------------- C6
\* C6: two With calls on a node with the same sequence of string keys and
\* values return the same node object, whether or not a key is recognized.
C6_SameSequenceSameNode ==
    [][(/\ lastOp.op = "With"
        /\ lastOp'.op = "With"
        /\ lastOp'.l = lastOp.l
        /\ lastOp'.keyvals = lastOp.keyvals
        /\ AllStrings(lastOp.keyvals))
       => lastOp'.ret = lastOp.ret]_vars

\* -------------------------------------------------------------------- C7
\* the With call of this step supplies a key the parent's table knows and no
\* pair with an exact entry
RecognizedNoExact ==
    /\ lastOp'.op = "With"
    /\ AllStrings(lastOp'.keyvals)
    /\ Recognized(tables[filters[lastOp'.l].allowedKV], lastOp'.keyvals)
    /\ ExactPairs(tables[filters[lastOp'.l].allowedKV], lastOp'.keyvals) = {}

C8_UnrecognizedKeyInherits ==
    [][(/\ lastOp'.op = "With"
        /\ AllStrings(lastOp'.keyvals)
        /\ ~Recognized(tables[filters[lastOp'.l].allowedKV], lastOp'.keyvals))
       => /\ filters'[lastOp'.ret].allowed = filters[lastOp'.l].allowed
          /\ filters'[lastOp'.ret].initiallyAllowed = filters[lastOp'.l].initiallyAllowed
          /\ filters'[lastOp'.ret].allowedKV = filters[lastOp'.l].allowedKV]_vars

\* -------------------------------------------------------------------- C9
LevelNames == {<<"debug">>, <<"info">>, <<"error">>, <<"none">>}

\* a token that is module:level with a known level name
WellFormedToken(tok) ==
    /\ Len(tok) >= 2
    /\ {i \in 1..Len(tok) : tok[i] = ":"} = {Len(tok) - 1}
    /\ <<tok[Len(tok)]>> \in LevelNames

\* a policy string UpdateLogLevel must reject
Malformed(lvl) ==
    \/ lvl = << >>
    \/ /\ Contains(lvl, ":")
       /\ \E i \in 1..Len(Split(lvl, ",")) : ~WellFormedToken(Split(lvl, ",")[i])
    \/ /\ ~Contains(lvl, ":")
       /\ lvl \notin LevelNames

\* C9: UpdateLogLevel on a malformed policy string returns an error and
\* applies nothing: the override tables, the cache and every node are as
\* before the call, also when well-formed tokens precede the malformed one.
C9_MalformedAppliesNothing ==
    [][(lastOp'.op = "UpdateLogLevel" /\ Malformed(lastOp'.lvl))
       => /\ lastOp'.err
          /\ tables' = tables
          /\ filters' = filters
          /\ cacheLoggers' = cacheLoggers
          /\ backendLog' = backendLog
          /\ crashed' = crashed]_vars

\* a string whose first token is well formed and names a cached node's module
\* was rejected, and that node kept its level
C9_Witness ==
    /\ lastOp.op = "UpdateLogLevel"
    /\ lastOp.err
    /\ lastOp.lvl = <<"test1", ":", "debug", ",", "*", ".", "debug">>
    /\ <<"module", "&", "test1">> \in DOMAIN cacheLoggers.loggersMap
    /\ filters[cacheLoggers.loggersMap[<<"module", "&", "test1">>]].allowed = levelError
    /\ keyval(<<"module">>, <<"test1">>) \notin DOMAIN tables[cacheLoggers.allowedKV]

\* ------------------------------------------------------------------- C10
\* two goroutines are about to access the same map, one of them writing it
MapRace ==
    \E t1 \in Threads, t2 \in Threads :
        /\ t1 # t2
        /\ \E a1 \in NextAccess(t1), a2 \in NextAccess(t2) :
              /\ a1.loc = a2.loc
              /\ a1.loc.kind \in {"loggersMap", "data"}
              /\ a1.write \/ a2.write

\* C10: with goroutines qualifying and emitting and goroutines calling
\* UpdateLogLevel with well-formed and malformed strings, in every
\* interleaving no call panics and neither the cache map nor an override
\* table map is written by one goroutine while another reads or writes it.
C10_NoPanicNoMapRace == ~crashed /\ ~MapRace

\* a qualification waits for the cache lock while an update, which holds it,
\* re-derives a cached node from the table
C10_Witness ==
    \E t1 \in Threads, t2 \in Threads :
        /\ threads[t1].pc = "uwRead"
        /\ threads[t2].pc \in {"getRLock", "setLock"}
        /\ cacheLock.writer = t1

\* ------------------------------------------------------------------- C11
\* no goroutine is inside a call
Quiescent == \A t \in Threads : threads[t].pc = "idle"

\* an UpdateLogLevel call has gone through UpdateFilter and returned
UpdateReturned ==
    \E t \in Threads :
        threads[t].pc = "idle" /\ threads[t].op = "UpdateLogLevel" /\ ~threads[t].err

\* re-deriving the cached node n from its path k against its table changes nothing
Rederived(k, n) ==
    UpdateWith(filters[n], tables[filters[n].allowedKV], Split(k, keyvalsSplit)) = {filters[n]}

\* C11: a policy update is atomic with respect to qualification: once an
\* update has returned and no call is in progress, every node in the cache
\* has the effective level that re-derivation from its path against the
\* updated table yields (no node derived from the table of before the update
\* is registered after the update's re-derivation pass).
C11_UpdateAtomicWrtWith ==
    (Quiescent /\ UpdateReturned)
    => \A k \in DOMAIN cacheLoggers.loggersMap : Rederived(k, cacheLoggers.loggersMap[k])

\* ------------------------------------------------------------------- C12
\* the attribute-path string a node was qualified with
PathOf(n) == keyvalsStr(filters[n].next.with)

\* C12: concurrent qualifications with one attribute path do not produce two
\* node instances for it: a goroutine that holds a node whose path is
\* registered in the cache holds the registered instance (a duplicate is
\* neither returned to a caller nor put in place of the registered instance).
C12_OneInstancePerPath ==
    \A t \in Threads :
        (/\ threads[t].pc = "idle"
         /\ threads[t].ret # Nil
         /\ PathOf(threads[t].ret) \in DOMAIN cacheLoggers.loggersMap)
        => cacheLoggers.loggersMap[PathOf(threads[t].ret)] = threads[t].ret

\* ------------------------------------------------------------------- C13
\* the locks a goroutine holds, in read or in write mode
HeldLocks(t) ==
    (IF cacheLock.writer = t \/ t \in cacheLock.readers THEN {MapLoc("cacheLock", 0)} ELSE {})
    \cup {MapLoc("tableLock", i) : i \in {j \in DOMAIN tableLock :
                                            tableLock[j].writer = t \/ t \in tableLock[j].readers}}

\* a policy update is about to write a level field of a node that another
\* goroutine is about to read, and the two hold no lock in common
FieldRace ==
    \E t1 \in Threads, t2 \in Threads :
        /\ t1 # t2
        /\ threads[t1].op = "UpdateLogLevel"
        /\ \E a1 \in NextAccess(t1), a2 \in NextAccess(t2) :
              /\ a1.loc = a2.loc
              /\ a1.loc.kind \in {"allowed", "initiallyAllowed"}
              /\ a1.write
              /\ ~a2.write
        /\ HeldLocks(t1) \cap HeldLocks(t2) = {}

\* C13: in no reachable interleaving does a policy update write the effective
\* or the baseline level of a cached node while another goroutine reads that
\* field (in an emission, or in a With call with the node as parent) without
\* a lock the writer and the reader both hold.
C13_NoUnlockedFieldRace == ~FieldRace

\* ------------------------------------------------------------------- C14
\* C14: the policy update is idempotent: when UpdateFilter has run and runs
\* again with the same default option (present or absent) and the same
\* per-attribute options, the second run leaves every override table and the
\* effective and the baseline level of every cached node as the first run
\* left them.
C14_UpdateIdempotent ==
    [][(/\ lastOp.op = "UpdateFilter"
        /\ lastOp'.op = "UpdateFilter"
        /\ lastOp'.defaultOption = lastOp.defaultOption
        /\ lastOp'.options = lastOp.options
        /\ ~crashed')
       => /\ tables' = tables
          /\ \A k \in DOMAIN cacheLoggers.loggersMap :
                LET n == cacheLoggers.loggersMap[k]
                IN /\ filters'[n].allowed = filters[n].allowed
                   /\ filters'[n].initiallyAllowed = filters[n].initiallyAllowed]_vars

\* ------------------------------------------------------------------- C17
\* the call of this step is a policy update without a default option that
\* reached UpdateFilter and returned
NilDefaultUpdate ==
    /\ ~crashed'
    /\ \/ lastOp'.op = "UpdateFilter" /\ lastOp'.defaultOption = NilOption
       \/ /\ lastOp'.op = "UpdateLogLevel"
          /\ ~lastOp'.err
          /\ parseLogLevel(lastOp'.lvl).defaultOption = NilOption

\* C17: an UpdateFilter call without a default option (nil), as UpdateLogLevel
\* issues for a string without a '*' token, leaves the baseline of every
\* cached node as it was.
C17_NilDefaultKeepsBaseline ==
    [][NilDefaultUpdate
       => \A k \in DOMAIN cacheLoggers.loggersMap :
             filters'[cacheLoggers.loggersMap[k]].initiallyAllowed
               = filters[cacheLoggers.loggersMap[k]].initiallyAllowed]_vars

\* ------------------------------------------------------------------- C15
\* the With call of this step has string keyvals and constructed a new node
WithMadeNode ==
    /\ lastOp'.op = "With"
    /\ AllStrings(lastOp'.keyvals)
    /\ lastOp'.ret \notin FilterIds

\* C15: when a With call that supplies several (key, value) pairs constructs
\* a node, the last supplied pair with an exact entry in the receiver's
\* override table gives the node's effective level, whatever the earlier
\* pairs and the iteration order of the table; in a chain of calls only the
\* pairs of the final call count.
C15_LastExactPairWins ==
    [][WithMadeNode
       => LET T == tables[filters[lastOp'.l].allowedKV]
              kvs == lastOp'.keyvals
          IN ExactPairs(T, kvs) # {}
             => filters'[lastOp'.ret].allowed = T[keyval(kvs[LastExact(T, kvs)],
                                                        kvs[LastExact(T, kvs) + 1])]]_vars

\* With(module, test1, user, Sam) gave the level of (user, Sam), and
\* With(user, Sam).With(module, test1) the level of (module, test1), where the
\* table holds the two pairs with different levels
C15_Witness ==
    \E a \in FilterIds, c \in FilterIds :
        LET T == tables[filters[a].allowedKV]
        IN /\ lastOp.op = "With"
           /\ filters[c].allowedKV = filters[a].allowedKV
           /\ keyval(MODULE_, TEST1) \in DOMAIN T
           /\ keyval(USER, SAM) \in DOMAIN T
           /\ T[keyval(MODULE_, TEST1)] # T[keyval(USER, SAM)]
           /\ filters[a].next.with = <<MODULE_, TEST1, USER, SAM>>
           /\ filters[a].allowed = T[keyval(USER, SAM)]
           /\ filters[c].next.keyvals = <<USER, SAM, MODULE_, TEST1>>
           /\ filters[c].next.with = <<MODULE_, TEST1>>
           /\ filters[c].allowed = T[keyval(MODULE_, TEST1)]

\* ------------------------------------------------------------------- C16
\* the distinct (key, value) pairs the Allow*With options of a list configure
OptionPairs(options) ==
    {keyval(options[i].key, options[i].value) :
        i \in {j \in 1..Len(options) : options[j].kind = "allowedWith"}}

StepOptions ==
    IF lastOp'.op = "UpdateFilter" THEN lastOp'.options
    ELSE IF lastOp'.op = "UpdateLogLevel" /\ ~lastOp'.err THEN parseLogLevel(lastOp'.lvl).options
    ELSE << >>

\* the table T holds the level of the last option of the list for each pair
HoldsLevels(T, options) ==
    \A i \in 1..Len(options) :
        LastForPair(options, i) => T[keyval(options[i].key, options[i].value)] = options[i].level

CacheOnOneTable ==
    \A k \in DOMAIN cacheLoggers.loggersMap :
        filters[cacheLoggers.loggersMap[k]].allowedKV = cacheLoggers.allowedKV

\* C18: after any sequence of NewFilter, With and UpdateFilter calls, with
\* more than one NewFilter call too, every node in the cache references the
\* override table that UpdateFilter writes the per-attribute options to, and
\* a With call on a root never returns a node bound to the table of another
\* root.
C18_CacheBoundToUpdatedTable ==
    [][/\ CacheOnOneTable'
       /\ lastOp'.op = "With"
          => filters'[lastOp'.ret].allowedKV = filters[lastOp'.l].allowedKV]_vars

\* ------------------------------------------------------------------- C19
\* C19: UpdateFilter and UpdateLogLevel never end in a crash, whatever the
\* order of the calls: a call that carries a per-attribute option and is made
\* before any NewFilter has attached an override table to the cache completes
\* without a nil-table panic.
C19_UpdateNeverCrashes ==
    lastOp.op \in {"UpdateFilter", "UpdateLogLevel"} => ~crashed

\* ------------------------------------------------------------------- C20
\* the goroutines that hold the lock m in a way that keeps t from taking it
Holders(m, t, write) ==
    (({m.writer} \ {Nil}) \cup (IF write THEN m.readers ELSE {}))

\* the goroutines the goroutine t waits for: the holders of the lock its next
\* step takes, when the lock is not free for it
WaitsOn(t) ==
    LET th == threads[t]
    IN IF th.pc = "getRLock" THEN Holders(cacheLock, t, FALSE)
       ELSE IF th.pc \in {"setLock", "updLock"} THEN Holders(cacheLock, t, TRUE)
       ELSE IF th.pc \in {"travRLock", "uwRLock"}
       THEN Holders(tableLock[filters[th.l].allowedKV], t, FALSE)
       ELSE IF /\ th.pc = "optLock"
               /\ Head(th.options).kind = "allowedWith"
               /\ cacheLoggers.allowedKV # Nil
       THEN Holders(tableLock[cacheLoggers.allowedKV], t, TRUE)
       ELSE {}

\* the goroutines t waits for, directly or through at most n others
RECURSIVE WaitsOnWithin(_, _)
WaitsOnWithin(t, n) ==
    IF n = 0 THEN {}
    ELSE WaitsOn(t) \cup UNION {WaitsOnWithin(u, n - 1) : u \in WaitsOn(t)}

\* the cache lock and the table locks are waited on in a cycle
WaitCycle == \E t \in Threads : t \in WaitsOnWithin(t, NumThreads)

\* C20: the system is free of deadlock: with goroutines calling With, the
\* emission operations and UpdateLogLevel at the same time, the cache lock
\* and the override table locks are never waited on in a cycle, and under
\* fair scheduling every call that was started returns.
C20_DeadlockFree ==
    /\ []~WaitCycle
    /\ \A t \in Threads : (threads[t].pc # "idle") ~> (threads[t].pc = "idle")

====
